---- MODULE Spec2Model ----
(***************************************************************************)
(* Model of server.js, the signaling server for random video chat: the     *)
(* single waiting slot, partner links, recent-pair memory with its 60 s    *)
(* timers, the rate limiter, the report ledger and ban set, and the        *)
(* periodic reaper.  Every socket.io handler is one atomic action (node    *)
(* runs each callback to completion).                                      *)
(***************************************************************************)
EXTENDS Integers, Sequences, FiniteSets, TLC

(* ------------------------------ bounds --------------------------------- *)
\* Number of socket ids.  The k-th connection is given id k: socket ids are
\* opaque and unique, so this loses nothing, and it makes the insertion order
\* of activeUsers the ascending id order.  SpecThree opens them all.
NumSessions == 3
\* Connections opened in the other specifications; the ids above it are ids
\* no connection has.
FewSessions == 2
\* The report ledger is unbounded in the code; the model stops taking
\* reports once the ledger holds MaxReports entries.
MaxReports == 4
\* Spec: the clock stops Horizon ms after the server started.
Horizon == 60000
\* SpecThree: the same, ShortHorizon ms.
ShortHorizon == 20000
\* An instant shorter than every rate-limit window (ms).
HalfSecond == 500

(* ------------------------- program constants --------------------------- *)
FIND_WINDOW == 800
REPORT_WINDOW == 5000
NEXT_WINDOW == 1000
PAIR_EXPIRY == 60000
STALE_AFTER == 45000
REAPER_PERIOD == 20000
BAN_THRESHOLD == 3

NULL == 0
Sessions == 1..NumSessions
\* The rate-limited action kinds.
Actions == {"findPartner", "report", "next"}
\* The window each call site passes to markRateLimited.
Window(action) ==
  CASE action = "findPartner" -> FIND_WINDOW
    [] action = "report"      -> REPORT_WINDOW
    [] action = "next"        -> NEXT_WINDOW
\* What a client can put in payload.reportedId: any id, or nothing (falsy).
ReportTargets == Sessions \cup {NULL}
\* payload.reason: absent ("") or a text.
Reasons == {""}
\* Opaque handshake payloads.
Payloads == {"X", "Y"}
\* Amounts of time (ms) that may pass between two events.
Deltas == {REAPER_PERIOD}
\* Times (ms since the server started) at which SpecAbuse and SpecRate let
\* events happen: the start, HalfSecond (within every window of the start)
\* and one report window after the start.
AbuseInstants == {0, REPORT_WINDOW}
RateInstants == {0, HalfSecond, REPORT_WINDOW}

(***************************************************************************)
(* Time.  The code stores Date.now() values and only ever compares their   *)
(* distance to the current time with a fixed threshold, so every stored    *)
(* time is kept as its age, now() - stored, saturated at the first value   *)
(* for which the comparison is decided for good:                           *)
(*   RATE_LIMIT[<<id, action>>]  age of the last accepted call, saturated   *)
(*                               at the action's window (an absent key     *)
(*                               reads as 0, i.e. as old as can be);       *)
(*   lastSeen[s]                 saturated at STALE_AFTER + 1;             *)
(*   timers, sweepIn             time left until the callback is due.      *)
(* The ts field of a report entry is written and never read; entries are   *)
(* modelled without it.                                                    *)
(***************************************************************************)
VARIABLES
  uptime,       \* ms since the server started
  sweepIn,      \* ms until the reaper's setInterval callback is due
  conn,         \* transport state of each id: "none", "open", "closed"
  activeUsers,  \* keys of the activeUsers Map
  partner,      \* socket.partner of each socket (NULL = null)
  lastSeen,     \* now() - socket.lastSeen, saturated
  waitingUser,  \* id of the waiting socket, or NULL
  recentPairs,  \* Map id -> Set of ids (a function on the ids that are keys)
  timers,       \* pending setTimeout callbacks of recordPair: [a, b, in]
  reports,      \* the reports array
  banned,       \* the banned Set
  RATE_LIMIT,   \* Map <<id, action>> -> now() - stored time, saturated
  out,          \* events emitted by the most recent step, in order
  last          \* the most recent step: [op, id, res], res the path taken

vars == <<uptime, sweepIn, conn, activeUsers, partner, lastSeen, waitingUser,
          recentPairs, timers, reports, banned, RATE_LIMIT, out, last>>

(* ------------------------------ helpers -------------------------------- *)
Min(S) == CHOOSE x \in S : \A y \in S : x <= y

\* An outbound event: socket.emit / partner.emit / io.to(id).emit.
Msg(to, ev) == [to |-> to, ev |-> ev, initiator |-> FALSE, partnerId |-> NULL,
                payload |-> ""]
MatchMsg(to, init, pid) == [to |-> to, ev |-> "match", initiator |-> init,
                            partnerId |-> pid, payload |-> ""]
RelayMsg(to, ev, p) == [to |-> to, ev |-> ev, initiator |-> FALSE,
                        partnerId |-> NULL, payload |-> p]

\* now() - (RATE_LIMIT.get(key) || 0): an absent key reads as time 0, which
\* is older than any window.
SinceLast(id, action) ==
  IF <<id, action>> \in DOMAIN RATE_LIMIT THEN RATE_LIMIT[<<id, action>>]
  ELSE Window(action)

\* markRateLimited with the comparison dropped: no call is ever rejected.
markRateLimited_NeverLimited(id, action, ms) == FALSE

\* The value markRateLimited returns: now() - last < ms.
markRateLimited(id, action, ms) == SinceLast(id, action) < ms

\* RATE_LIMIT after markRateLimited(id, action, ms): RATE_LIMIT.set(key, now())
\* unless the call is rejected.
RateLimitAfter(id, action, ms) ==
  IF markRateLimited(id, action, ms) THEN RATE_LIMIT
  ELSE [k \in DOMAIN RATE_LIMIT \cup {<<id, action>>} |->
          IF k = <<id, action>> THEN 0 ELSE RATE_LIMIT[k]]

\* The lookup answering false whatever the memory holds.
wasRecentlyPaired_Never(a, b) == FALSE

\* recentPairs.get(a)?.has(b) || false
wasRecentlyPaired(a, b) ==
  IF a \in DOMAIN recentPairs THEN b \in recentPairs[a] ELSE FALSE

\* recentPairs after the four Map/Set updates of recordPair(a, b).
recordPair(a, b) ==
  [k \in DOMAIN recentPairs \cup {a, b} |->
     LET old == IF k \in DOMAIN recentPairs THEN recentPairs[k] ELSE {}
     IN  IF k = a /\ k = b THEN old \cup {a, b}
         ELSE IF k = a THEN old \cup {b}
         ELSE IF k = b THEN old \cup {a}
         ELSE old]

\* The state safeDisconnect reads and writes, as a record.
Shared == [waitingUser |-> waitingUser, partner |-> partner,
           activeUsers |-> activeUsers, recentPairs |-> recentPairs,
           out |-> <<>>]

\* safeDisconnect without its "socket.partner = null": the partner is told
\* and unlinked, the socket keeps its own link.
safeDisconnect_KeepsOwnLink(st, s) ==
  LET p == st.partner[s]
      w == IF st.waitingUser # NULL /\ st.waitingUser = s THEN NULL
           ELSE st.waitingUser
  IN  [waitingUser |-> w,
       partner     |-> IF p # NULL THEN [st.partner EXCEPT ![p] = NULL]
                       ELSE st.partner,
       activeUsers |-> st.activeUsers \ {s},
       recentPairs |-> [k \in DOMAIN st.recentPairs \ {s} |-> st.recentPairs[k]],
       out         |-> IF p # NULL THEN Append(st.out, Msg(p, "partnerLeft"))
                       ELSE st.out]

\* safeDisconnect(socket) applied to the shared state st.
safeDisconnect(st, s) ==
  LET p == st.partner[s]
      w == IF st.waitingUser # NULL /\ st.waitingUser = s THEN NULL
           ELSE st.waitingUser
      pr1 == IF p # NULL THEN [st.partner EXCEPT ![p] = NULL] ELSE st.partner
  IN  [waitingUser |-> w,
       partner     |-> [pr1 EXCEPT ![s] = NULL],
       activeUsers |-> st.activeUsers \ {s},
       recentPairs |-> [k \in DOMAIN st.recentPairs \ {s} |-> st.recentPairs[k]],
       out         |-> IF p # NULL THEN Append(st.out, Msg(p, "partnerLeft"))
                       ELSE st.out]

\* The staleness comparison turned around: socket.lastSeen > cutoff
Stale_Reversed(s) == lastSeen[s] < STALE_AFTER

\* socket.lastSeen < cutoff, with cutoff = now() - 45000
Stale(s) == lastSeen[s] > STALE_AFTER

\* The reaper's loop body run over the sockets of activeUsers with id >= s,
\* in the Map's insertion order.
RECURSIVE Sweep(_, _)
Sweep(st, s) ==
  IF s > NumSessions THEN st
  ELSE IF s \in st.activeUsers /\ Stale(s)
       THEN Sweep(safeDisconnect(st, s), s + 1)
       ELSE Sweep(st, s + 1)

\* An age a after d more ms, saturated at cap.
Older(a, d, cap) == IF a + d > cap THEN cap ELSE a + d

(* ------------------------------- Init ---------------------------------- *)
Init ==
  /\ uptime = 0
  /\ sweepIn = REAPER_PERIOD
  /\ conn = [s \in Sessions |-> "none"]
  /\ activeUsers = {}
  /\ partner = [s \in Sessions |-> NULL]
  /\ lastSeen = [s \in Sessions |-> 0]
  /\ waitingUser = NULL
  /\ recentPairs = <<>>
  /\ timers = {}
  /\ reports = <<>>
  /\ banned = {}
  /\ RATE_LIMIT = <<>>
  /\ out = <<>>
  /\ last = [op |-> "init", id |-> NULL, res |-> ""]

(* ------------------------------ actions -------------------------------- *)
\* io.on("connection"): the transport opens the next connection.
Connect(s) ==
  /\ conn[s] = "none"
  /\ \A t \in Sessions : t < s => conn[t] # "none"
  /\ conn' = [conn EXCEPT ![s] = "open"]
  /\ activeUsers' = activeUsers \cup {s}
  /\ partner' = [partner EXCEPT ![s] = NULL]
  /\ lastSeen' = [lastSeen EXCEPT ![s] = 0]
  /\ out' = <<>>
  /\ last' = [op |-> "connect", id |-> s, res |-> ""]
  /\ UNCHANGED <<uptime, sweepIn, waitingUser, recentPairs, timers, reports,
                 banned, RATE_LIMIT>>

\* socket.on("heartbeat")
Heartbeat(s) ==
  /\ conn[s] = "open"
  /\ lastSeen' = [lastSeen EXCEPT ![s] = 0]
  /\ out' = <<>>
  /\ last' = [op |-> "heartbeat", id |-> s, res |-> ""]
  /\ UNCHANGED <<uptime, sweepIn, conn, activeUsers, partner, waitingUser,
                 recentPairs, timers, reports, banned, RATE_LIMIT>>

\* The ban check left out of the handler.
IsBanned_Unchecked(s) == FALSE

\* banned.has(socket.id)
IsBanned(s) == s \in banned

\* The self-match guard left out of the handler.
SelfMatch_Unguarded(s) == FALSE

\* waitingUser && waitingUser.id === socket.id
SelfMatch(s) == waitingUser # NULL /\ waitingUser = s

\* The two match events with the initiator flags exchanged.
MatchEvents_FlagsSwapped(s, w) == <<MatchMsg(s, FALSE, w), MatchMsg(w, TRUE, s)>>

\* The two match events of a pairing: to the caller s, then to the waiting
\* socket w.
MatchEvents(s, w) == <<MatchMsg(s, TRUE, w), MatchMsg(w, FALSE, s)>>

\* socket.on("findPartner")
FindPartner(s) ==
  /\ conn[s] = "open"
  /\ UNCHANGED <<uptime, sweepIn, conn, activeUsers, lastSeen, reports, banned>>
  /\ IF IsBanned(s)
       THEN /\ out' = <<Msg(s, "banned")>>
            /\ last' = [op |-> "findPartner", id |-> s, res |-> "banned"]
            /\ UNCHANGED <<partner, waitingUser, recentPairs, timers, RATE_LIMIT>>
     ELSE IF markRateLimited(s, "findPartner", FIND_WINDOW)
       THEN /\ out' = <<Msg(s, "matchTimeout")>>
            /\ last' = [op |-> "findPartner", id |-> s, res |-> "limited"]
            /\ UNCHANGED <<partner, waitingUser, recentPairs, timers, RATE_LIMIT>>
     ELSE /\ RATE_LIMIT' = RateLimitAfter(s, "findPartner", FIND_WINDOW)
          /\ IF SelfMatch(s)
               THEN /\ out' = <<>>
                    /\ last' = [op |-> "findPartner", id |-> s, res |-> "self"]
                    /\ UNCHANGED <<partner, waitingUser, recentPairs, timers>>
             ELSE IF waitingUser = NULL
               THEN /\ waitingUser' = s
                    /\ out' = <<>>
                    /\ last' = [op |-> "findPartner", id |-> s, res |-> "waiting"]
                    /\ UNCHANGED <<partner, recentPairs, timers>>
             ELSE IF wasRecentlyPaired(s, waitingUser)
               THEN /\ out' = <<>>
                    /\ last' = [op |-> "findPartner", id |-> s, res |-> "recent"]
                    /\ UNCHANGED <<partner, waitingUser, recentPairs, timers>>
             ELSE LET w == waitingUser IN
                    /\ waitingUser' = NULL
                    /\ partner' = [partner EXCEPT ![s] = w, ![w] = s]
                    /\ recentPairs' = recordPair(s, w)
                    /\ timers' = timers \cup
                                 {[a |-> s, b |-> w, in |-> PAIR_EXPIRY]}
                    /\ out' = MatchEvents(s, w)
                    /\ last' = [op |-> "findPartner", id |-> s, res |-> "paired"]

\* socket.on("report") with a falsy payload: the handler returns at once.
ReportNoPayload(s) ==
  /\ conn[s] = "open"
  /\ out' = <<>>
  /\ last' = [op |-> "report", id |-> s, res |-> "nopayload"]
  /\ UNCHANGED <<uptime, sweepIn, conn, activeUsers, partner, lastSeen,
                 waitingUser, recentPairs, timers, reports, banned, RATE_LIMIT>>

\* reports.filter(r => r.reportedId === reportedId).length
ReportCount(ledger, id) ==
  Cardinality({i \in 1..Len(ledger) : ledger[i].reportedId = id})

\* The threshold test off by one the other way: reportCount >= 2 && reportedId
BanDue_TooEarly(ledger, id) ==
  ReportCount(ledger, id) >= BAN_THRESHOLD - 1 /\ id # NULL

\* The threshold test off by one: reportCount > 3 && reportedId
BanDue_OffByOne(ledger, id) == ReportCount(ledger, id) > BAN_THRESHOLD /\ id # NULL

\* reportCount >= 3 && reportedId
BanDue(ledger, id) == ReportCount(ledger, id) >= BAN_THRESHOLD /\ id # NULL

\* The operands the other way round: payload.reportedId || socket.partner?.id
ReportedId_PayloadFirst(s, target) ==
  IF target # NULL THEN target ELSE partner[s]

\* socket.partner?.id || payload.reportedId
ReportedId(s, target) == IF partner[s] # NULL THEN partner[s] ELSE target

\* socket.on("report") with payload {reportedId: target, reason: reason}.
Report(s, target, reason) ==
  /\ conn[s] = "open"
  /\ Len(reports) < MaxReports
  /\ UNCHANGED <<uptime, sweepIn, conn, activeUsers, partner, lastSeen,
                 waitingUser, recentPairs, timers>>
  /\ IF markRateLimited(s, "report", REPORT_WINDOW)
       THEN /\ out' = <<>>
            /\ last' = [op |-> "report", id |-> s, res |-> "limited"]
            /\ UNCHANGED <<reports, banned, RATE_LIMIT>>
     ELSE LET reportedId == ReportedId(s, target)
              entry == [reporterId |-> s, reportedId |-> reportedId,
                        reason |-> IF reason = "" THEN "unspecified" ELSE reason]
              ledger == Append(reports, entry)
          IN  /\ RATE_LIMIT' = RateLimitAfter(s, "report", REPORT_WINDOW)
              /\ reports' = ledger
              /\ banned' = IF BanDue(ledger, reportedId)
                             THEN banned \cup {reportedId} ELSE banned
              /\ out' = IF BanDue(ledger, reportedId)
                          THEN <<Msg(s, "reportAck"), Msg(reportedId, "banned")>>
                          ELSE <<Msg(s, "reportAck")>>
              /\ last' = [op |-> "report", id |-> s, res |-> "stored"]

\* The three handshake events.
RelayKinds == {"offer", "answer", "candidate"}

\* Every relay handler emitting "offer", as a handler copied from the first
\* and not renamed would.
RelayEvents_AlwaysOffer(s, kind, p) ==
  IF partner[s] # NULL THEN <<RelayMsg(partner[s], "offer", p)>> ELSE <<>>

\* if (socket.partner) socket.partner.emit(kind, payload)
RelayEvents(s, kind, p) ==
  IF partner[s] # NULL THEN <<RelayMsg(partner[s], kind, p)>> ELSE <<>>

\* socket.on("offer"), socket.on("answer"), socket.on("candidate"); last.res
\* keeps the payload the handler was given.
Relay(s, kind, p) ==
  /\ conn[s] = "open"
  /\ out' = RelayEvents(s, kind, p)
  /\ last' = [op |-> kind, id |-> s, res |-> p]
  /\ UNCHANGED <<uptime, sweepIn, conn, activeUsers, partner, lastSeen,
                 waitingUser, recentPairs, timers, reports, banned, RATE_LIMIT>>

\* socket.on("next").  The two trailing socket.emit calls send the events
\* readyForNext and findPartner to the client; a server-side socket.emit does
\* not run the server's own findPartner handler.
NextPartner(s) ==
  /\ conn[s] = "open"
  /\ UNCHANGED <<uptime, sweepIn, conn, activeUsers, lastSeen, waitingUser,
                 recentPairs, timers, reports, banned>>
  /\ IF markRateLimited(s, "next", NEXT_WINDOW)
       THEN /\ out' = <<>>
            /\ last' = [op |-> "next", id |-> s, res |-> "limited"]
            /\ UNCHANGED <<partner, RATE_LIMIT>>
     ELSE LET p == partner[s] IN
          /\ RATE_LIMIT' = RateLimitAfter(s, "next", NEXT_WINDOW)
          /\ partner' = IF p # NULL THEN [partner EXCEPT ![p] = NULL, ![s] = NULL]
                        ELSE partner
          /\ out' = (IF p # NULL THEN <<Msg(p, "partnerLeft")>> ELSE <<>>)
                    \o <<Msg(s, "readyForNext"), Msg(s, "findPartner")>>
          /\ last' = [op |-> "next", id |-> s, res |-> "done"]

\* socket.on("disconnect"): the transport closed the connection.
Disconnect(s) ==
  /\ conn[s] = "open"
  /\ LET st == safeDisconnect(Shared, s) IN
       /\ waitingUser' = st.waitingUser
       /\ partner' = st.partner
       /\ activeUsers' = st.activeUsers
       /\ recentPairs' = st.recentPairs
       /\ out' = st.out
  /\ conn' = [conn EXCEPT ![s] = "closed"]
  /\ lastSeen' = [lastSeen EXCEPT ![s] = 0]   \* the socket object is dropped
  /\ last' = [op |-> "disconnect", id |-> s, res |-> ""]
  /\ UNCHANGED <<uptime, sweepIn, timers, reports, banned, RATE_LIMIT>>

\* The setInterval callback: one sweep over activeUsers.
Reaper ==
  /\ sweepIn = 0
  /\ sweepIn' = REAPER_PERIOD
  /\ LET st == Sweep(Shared, 1) IN
       /\ waitingUser' = st.waitingUser
       /\ partner' = st.partner
       /\ activeUsers' = st.activeUsers
       /\ recentPairs' = st.recentPairs
       /\ out' = st.out
  /\ last' = [op |-> "reaper", id |-> NULL, res |-> ""]
  /\ UNCHANGED <<uptime, conn, lastSeen, timers, reports, banned, RATE_LIMIT>>

\* recentPairs.get(a)?.delete(b)
ForgetPair(rp, a, b) ==
  [k \in DOMAIN rp |-> IF k = a THEN rp[k] \ {b} ELSE rp[k]]

\* The setTimeout callback scheduled by recordPair(a, b).
Expire(t) ==
  /\ t \in timers
  /\ t.in = 0
  /\ recentPairs' = ForgetPair(ForgetPair(recentPairs, t.a, t.b), t.b, t.a)
  /\ timers' = timers \ {t}
  /\ out' = <<>>
  /\ last' = [op |-> "expire", id |-> NULL, res |-> ""]
  /\ UNCHANGED <<uptime, sweepIn, conn, activeUsers, partner, lastSeen,
                 waitingUser, reports, banned, RATE_LIMIT>>

\* Time passes: d ms, or less if a scheduled callback is due sooner (node
\* runs a due callback before any later event).
Advance(d) ==
  LET step == Min({d, sweepIn} \cup {x.in : x \in timers}) IN
  /\ step > 0
  /\ uptime' = uptime + step
  /\ sweepIn' = sweepIn - step
  /\ timers' = {[x EXCEPT !.in = x.in - step] : x \in timers}
  /\ RATE_LIMIT' = [k \in DOMAIN RATE_LIMIT |->
                      Older(RATE_LIMIT[k], step, Window(k[2]))]
  /\ lastSeen' = [s \in Sessions |->
                    IF conn[s] = "open"
                      THEN Older(lastSeen[s], step, STALE_AFTER + 1)
                      ELSE lastSeen[s]]
  /\ out' = <<>>
  /\ last' = [op |-> "advance", id |-> NULL, res |-> ""]
  /\ UNCHANGED <<conn, activeUsers, partner, waitingUser, recentPairs,
                 reports, banned>>

(* --------------------------- specifications ---------------------------- *)
\* Advance(d) while the clock stays within the first h ms.
AdvanceWithin(d, h) ==
  /\ uptime + d <= h
  /\ Advance(d)

\* The matching engine for FewSessions clients: every handler that touches
\* the waiting slot, the partner links, the registry or recent-pair memory,
\* with the reaper and the expiry timers.  Nobody reports, so nobody is banned.
Next ==
  \/ \E s \in 1..FewSessions : Connect(s)
  \/ \E s \in Sessions : Heartbeat(s)
  \/ \E s \in Sessions : FindPartner(s)
  \/ \E s \in Sessions : NextPartner(s)
  \/ \E s \in Sessions : Disconnect(s)
  \/ Reaper
  \/ \E t \in timers : Expire(t)
  \/ \E d \in Deltas : AdvanceWithin(d, Horizon)

Spec == Init /\ [][Next]_vars

\* The matching engine for NumSessions clients during the first ShortHorizon
\* ms (no socket is stale and no expiry timer is due that early).
NextThree ==
  \/ \E s \in Sessions : Connect(s)
  \/ \E s \in Sessions : FindPartner(s)
  \/ \E s \in Sessions : NextPartner(s)
  \/ \E s \in Sessions : Disconnect(s)
  \/ Reaper
  \/ \E d \in Deltas : AdvanceWithin(d, ShortHorizon)

SpecThree == Init /\ [][NextThree]_vars

\* Abuse control: reports and bans against matching, for FewSessions
\* clients, with the clock read at AbuseInstants, all of them before the first
\* reaper sweep and the first expiry are due.
NextAbuse ==
  \/ \E s \in 1..FewSessions : Connect(s)
  \/ \E s \in Sessions : FindPartner(s)
  \/ \E s \in Sessions : ReportNoPayload(s)
  \/ \E s \in Sessions, target \in ReportTargets, reason \in Reasons :
       Report(s, target, reason)
  \/ \E s \in Sessions : Disconnect(s)
  \/ \E t \in AbuseInstants : t > uptime /\ Advance(t - uptime)

SpecAbuse == Init /\ [][NextAbuse]_vars

\* The rate limiter: the three rate-limited handlers of FewSessions clients,
\* with the clock read at RateInstants.  Every report names client 1 (or, as
\* the handler has it, the reporter's partner).
NextRate ==
  \/ \E s \in 1..FewSessions : Connect(s)
  \/ \E s \in Sessions : FindPartner(s)
  \/ \E s \in Sessions : NextPartner(s)
  \/ \E s \in Sessions : ReportNoPayload(s)
  \/ \E s \in Sessions, reason \in Reasons : Report(s, 1, reason)
  \/ \E t \in RateInstants : t > uptime /\ Advance(t - uptime)

SpecRate == Init /\ [][NextRate]_vars

\* The relay: the three handshake handlers of FewSessions clients against
\* matching, next and disconnect, during the first ShortHorizon ms.
NextRelay ==
  \/ \E s \in 1..FewSessions : Connect(s)
  \/ \E s \in Sessions : FindPartner(s)
  \/ \E s \in Sessions, kind \in RelayKinds, p \in Payloads : Relay(s, kind, p)
  \/ \E s \in Sessions : NextPartner(s)
  \/ \E s \in Sessions : Disconnect(s)
  \/ \E d \in Deltas : AdvanceWithin(d, ShortHorizon)

SpecRelay == Init /\ [][NextRelay]_vars

\* Who hears from whom, for NumSessions clients during the first
\* ShortHorizon ms: matching, the relay (one payload: the relay does not
\* look at it), next and disconnect.
NextLinks ==
  \/ \E s \in Sessions : Connect(s)
  \/ \E s \in Sessions : FindPartner(s)
  \/ \E s \in Sessions, kind \in RelayKinds : Relay(s, kind, "X")
  \/ \E s \in Sessions : NextPartner(s)
  \/ \E s \in Sessions : Disconnect(s)
  \/ \E d \in Deltas : AdvanceWithin(d, ShortHorizon)

SpecLinks == Init /\ [][NextLinks]_vars

\* The ban set against the operations, for FewSessions clients during the
\* first ShortHorizon ms: all the handlers and the reaper (no expiry timer is
\* due that early).  Every report names client 1 (or the reporter's partner),
\* one relay stands for the three.
NextBan ==
  \/ \E s \in 1..FewSessions : Connect(s)
  \/ \E s \in Sessions : Heartbeat(s)
  \/ \E s \in Sessions : FindPartner(s)
  \/ \E s \in Sessions : Relay(s, "offer", "X")
  \/ \E s \in Sessions : NextPartner(s)
  \/ \E s \in Sessions, reason \in Reasons : Report(s, 1, reason)
  \/ \E s \in Sessions : Disconnect(s)
  \/ Reaper
  \/ \E d \in Deltas : AdvanceWithin(d, ShortHorizon)

SpecBan == Init /\ [][NextBan]_vars

\* Liveness tracking for FewSessions clients: heartbeats against the reaper,
\* with matching and disconnects.  The interval timer keeps firing and time
\* keeps passing (up to Horizon): node's event loop runs a due setInterval
\* callback, whatever else is queued.
NextLive ==
  \/ \E s \in 1..FewSessions : Connect(s)
  \/ \E s \in Sessions : Heartbeat(s)
  \/ \E s \in Sessions : FindPartner(s)
  \/ \E s \in Sessions : Disconnect(s)
  \/ Reaper
  \/ \E t \in timers : Expire(t)
  \/ \E d \in Deltas : AdvanceWithin(d, Horizon)

SpecLive ==
  /\ Init /\ [][NextLive]_vars
  /\ WF_vars(Reaper)
  /\ WF_vars(\E d \in Deltas : AdvanceWithin(d, Horizon))

(* ------------------------------- claims -------------------------------- *)
\* A step in which the link of some socket is set to a new partner.
NewlyPaired(s) == partner'[s] # NULL /\ partner'[s] # partner[s]

\* C1: partner links are symmetric in every reachable state: A's partner is
\* B if and only if B's partner is A.
C1_LinksSymmetric ==
  \A a, b \in Sessions : (partner[a] = b) <=> (partner[b] = a)

\* C2: no socket is at once the waiting socket and linked to a partner.
C2_WaitingXorPaired ==
  \A s \in Sessions : ~(waitingUser = s /\ partner[s] # NULL)

\* C3: the waiting slot holds at most one socket (it is empty or names one
\* socket id) and no socket is ever its own partner.
C3_NoSelfPartner ==
  /\ waitingUser \in Sessions \cup {NULL}
  /\ \A s \in Sessions : partner[s] # s

\* C3 witness: the waiting socket itself has just asked for a partner again,
\* and is still waiting, unpaired.
C3_SelfRequestSeen ==
  /\ last.op = "findPartner" /\ last.res = "self"
  /\ waitingUser = last.id
  /\ partner[last.id] = NULL

\* C4: once recordPair(A, B) has run, no findPartner pairs A with B again
\* while the expiry that recordPair scheduled has not yet fired (here: is
\* still strictly in the future).
C4_NoRepairBeforeExpiry ==
  [][\A s \in Sessions :
       (NewlyPaired(s) /\ last'.op = "findPartner" /\ last'.id = s)
         => ~\E t \in timers : /\ t.in > 0
                               /\ {t.a, t.b} = {s, partner'[s]}]_vars

\* C5: every pairing step emits exactly two match events, one to each member
\* of the new pair and carrying the other member's id; the caller of
\* findPartner gets initiator = TRUE and the socket that was waiting gets
\* initiator = FALSE.
C5_MatchNotifications ==
  [][(\E x \in Sessions : NewlyPaired(x)) =>
       LET s == last'.id
           w == waitingUser
       IN  /\ last'.op = "findPartner"
           /\ w # NULL /\ w # s
           /\ partner'[s] = w /\ partner'[w] = s
           /\ Len(out') = 2
           /\ out'[1].ev = "match" /\ out'[2].ev = "match"
           /\ out'[1].to = s /\ out'[1].partnerId = w
           /\ out'[2].to = w /\ out'[2].partnerId = s
           /\ out'[1].initiator = TRUE /\ out'[2].initiator = FALSE]_vars

\* C5 witness: a findPartner call has just completed a pairing and the two
\* match events are out.
C5_PairingSeen ==
  /\ last.op = "findPartner" /\ last.res = "paired"
  /\ partner[last.id] # NULL
  /\ partner[partner[last.id]] = last.id
  /\ Len(out) = 2
  /\ out[1].ev = "match" /\ out[1].to = last.id
  /\ out[2].ev = "match" /\ out[2].to = partner[last.id]

\* C6: every non-empty id that is the reportedId of at least three ledger
\* entries is in the ban set; the accepted report that brings the count to
\* three emits a banned event addressed to that id; and an accepted report
\* against an id that already has three is still appended to the ledger.
C6_ThreeReportsBan ==
  /\ [](\A id \in Sessions :
          ReportCount(reports, id) >= BAN_THRESHOLD => id \in banned)
  /\ [][\A id \in Sessions :
          /\ (ReportCount(reports, id) < BAN_THRESHOLD
              /\ ReportCount(reports', id) >= BAN_THRESHOLD)
               => \E i \in 1..Len(out') : out'[i] = Msg(id, "banned")
          /\ (/\ ReportCount(reports, id) >= BAN_THRESHOLD
              /\ last'.op = "report" /\ last'.res = "stored"
              /\ ReportedId(last'.id, id) = id)
               => /\ Len(reports') = Len(reports) + 1
                  /\ SubSeq(reports', 1, Len(reports)) = reports
                  /\ reports'[Len(reports')].reporterId = last'.id]_vars

\* C6 witness: a fourth report against one id has just been stored, and the
\* id is banned.
C6_FourthReportSeen ==
  /\ last.op = "report" /\ last.res = "stored"
  /\ \E id \in Sessions :
       /\ ReportCount(reports, id) = BAN_THRESHOLD + 1
       /\ reports[Len(reports)].reportedId = id
       /\ id \in banned

\* C7: once an id is in the ban set, its socket is never newly paired: its
\* partner link is never set and it is sent no match event.
C7_BannedNeverPaired ==
  [][\A s \in Sessions :
       s \in banned =>
         /\ ~NewlyPaired(s)
         /\ ~\E i \in 1..Len(out') : out'[i].ev = "match" /\ out'[i].to = s]_vars

\* C8: a findPartner call by a banned socket changes no state (waiting slot,
\* partner links, recent-pair memory and its timers, rate-limit map, report
\* ledger, ban set, registry) and emits exactly one event, banned, to the
\* caller.
C8_BannedFindPartnerInert ==
  [][(last'.op = "findPartner" /\ last'.id \in banned) =>
       /\ UNCHANGED <<waitingUser, partner, recentPairs, timers, RATE_LIMIT,
                      reports, banned, activeUsers>>
       /\ out' = <<Msg(last'.id, "banned")>>]_vars

\* C8 witness: a banned socket has just called findPartner while another
\* socket is waiting, and got the banned event.
C8_BannedCallSeen ==
  /\ last.op = "findPartner" /\ last.id \in banned
  /\ waitingUser # NULL /\ waitingUser # last.id
  /\ out = <<Msg(last.id, "banned")>>

\* The shared state a rejected call must leave alone.
RateFrame == <<waitingUser, partner, recentPairs, reports, banned, RATE_LIMIT>>

\* The call of kind k by s has stored the current time for (s, k).
Stamped(s, k) ==
  /\ <<s, k>> \in DOMAIN RATE_LIMIT'
  /\ RATE_LIMIT'[<<s, k>>] = 0

\* C9 as stated: for each action kind, a call made less than the window after
\* the caller's last accepted call of that kind changes no state, and a call
\* made once the window has elapsed is accepted and stores the current time.
C9_RateLimitAsStated ==
  [][\A s \in Sessions, k \in Actions :
       (last'.op = k /\ last'.id = s) =>
         IF SinceLast(s, k) < Window(k)
           THEN UNCHANGED RateFrame
           ELSE last'.res \notin {"limited", "banned", "nopayload"}
                /\ Stamped(s, k)]_vars

\* C9 amended: as stated, but a call made once the window has elapsed is
\* accepted and stores the current time only when the handler gets as far as
\* the rate limiter: a findPartner by a socket that is not banned, a report
\* that carries a payload, any next.
C9_RateLimit ==
  [][\A s \in Sessions, k \in Actions :
       (last'.op = k /\ last'.id = s) =>
         IF SinceLast(s, k) < Window(k)
           THEN UNCHANGED RateFrame
           ELSE (/\ k = "findPartner" => s \notin banned
                 /\ k = "report" => last'.res # "nopayload")
                  => /\ last'.res \notin {"limited", "banned", "nopayload"}
                     /\ Stamped(s, k)]_vars

\* C9 witness: HalfSecond after its accepted findPartner a socket has called
\* findPartner again with the waiting slot empty and was turned away: the
\* slot is still empty and the stored time is still HalfSecond old.
C9_RejectedCallSeen ==
  /\ last.op = "findPartner" /\ last.res = "limited"
  /\ uptime = HalfSecond
  /\ waitingUser = NULL
  /\ <<last.id, "findPartner">> \in DOMAIN RATE_LIMIT
  /\ RATE_LIMIT[<<last.id, "findPartner">>] = HalfSecond

\* C10: an accepted next by a paired socket sends partnerLeft to the partner,
\* clears both links and, in the same step, puts the caller back through
\* findPartner: with nobody waiting, the caller is the waiting socket when
\* next completes.
C10_NextRequeues ==
  [][\A s \in Sessions :
       (/\ last'.op = "next" /\ last'.id = s
        /\ partner[s] # NULL
        /\ SinceLast(s, "next") >= NEXT_WINDOW
        /\ waitingUser = NULL)
         => /\ partner'[s] = NULL
            /\ partner'[partner[s]] = NULL
            /\ \E i \in 1..Len(out') : out'[i] = Msg(partner[s], "partnerLeft")
            /\ waitingUser' = s]_vars

\* The shared state when the reaper's loop, having handled the ids t .. s-1,
\* reaches id s.
RECURSIVE SweptBefore(_, _, _)
SweptBefore(st, t, s) ==
  IF t >= s THEN st
  ELSE IF t \in st.activeUsers /\ lastSeen[t] > STALE_AFTER
         THEN SweptBefore(safeDisconnect(st, t), t + 1, s)
         ELSE SweptBefore(st, t + 1, s)

\* A registered socket whose lastSeen is more than the threshold old.
Overdue(s) == s \in activeUsers /\ lastSeen[s] > STALE_AFTER

\* out' holds a partnerLeft addressed to p.
ToldPartnerLeft(p) == \E i \in 1..Len(out') : out'[i] = Msg(p, "partnerLeft")

\* What every sweep does, whoever counts as "its partner": overdue sockets
\* leave the registry, lose their link and free the waiting slot; the others
\* stay registered.  And every overdue socket is eventually removed or
\* refreshed.
ReaperBasics ==
  /\ [][last'.op = "reaper" =>
          \A s \in Sessions :
            IF Overdue(s)
              THEN /\ s \notin activeUsers'
                   /\ partner'[s] = NULL
                   /\ waitingUser = s => waitingUser' = NULL
              ELSE s \in activeUsers => s \in activeUsers']_vars
  /\ \A s \in Sessions :
       Overdue(s) ~> (s \notin activeUsers \/ lastSeen[s] <= STALE_AFTER)

\* C11 as stated: under a fair reaper every registered socket whose lastSeen
\* stays unrefreshed for longer than the threshold is eventually removed; at
\* the sweep that removes it the socket that was its partner gets partnerLeft
\* and has its link cleared, and the waiting slot is emptied if it held the
\* socket; a socket within the threshold is never removed by the reaper.
C11_ReaperAsStated ==
  /\ ReaperBasics
  /\ [][last'.op = "reaper" =>
          \A s \in Sessions :
            (Overdue(s) /\ partner[s] # NULL)
              => /\ ToldPartnerLeft(partner[s])
                 /\ partner'[partner[s]] = NULL]_vars

\* C11 amended: the same, with "its partner" read as the partner the socket
\* still has when the sweep reaches it: the removal of an overdue socket
\* earlier in the same sweep may already have cleared the link, and then
\* nothing is sent.
C11_Reaper ==
  /\ ReaperBasics
  /\ [][last'.op = "reaper" =>
          \A s \in Sessions :
            LET p == SweptBefore(Shared, 1, s).partner[s] IN
            (Overdue(s) /\ p # NULL)
              => /\ ToldPartnerLeft(p)
                 /\ partner'[p] = NULL]_vars

\* C11 witness: a sweep has just removed an overdue socket whose transport
\* is still open, and its partner, kept alive by a heartbeat, was told.
C11_SweepSeen ==
  /\ last.op = "reaper"
  /\ \E s, p \in Sessions :
       /\ conn[s] = "open" /\ s \notin activeUsers
       /\ p \in activeUsers /\ partner[p] = NULL
       /\ out = <<Msg(p, "partnerLeft")>>

\* C12: an offer, answer or candidate from s with payload P emits, if s has
\* a partner, exactly one event: of the same kind, carrying P, addressed to
\* that partner; if s has no partner it emits nothing.  Either way no server
\* state changes.
C12_RelayPassthrough ==
  [][\A s \in Sessions, kind \in RelayKinds :
       (last'.op = kind /\ last'.id = s) =>
         /\ IF partner[s] # NULL
              THEN /\ Len(out') = 1
                   /\ out'[1].ev = kind
                   /\ out'[1].payload = last'.res
                   /\ out'[1].to = partner[s]
              ELSE out' = <<>>
         /\ UNCHANGED <<waitingUser, partner, activeUsers, recentPairs, timers,
                        reports, banned, RATE_LIMIT, lastSeen>>]_vars

\* C12 witness: an answer carrying "Y" has just been relayed to the
\* sender's partner.
C12_AnswerRelayed ==
  /\ last.op = "answer" /\ last.res = "Y"
  /\ partner[last.id] # NULL
  /\ out = <<RelayMsg(partner[last.id], "answer", "Y")>>

\* C13: when a socket leaves the registry (disconnect or reaper) it is not
\* the waiting socket, has no partner link, and no other socket's link names
\* it; and in every reachable state no registered socket is linked to a
\* socket that is not registered.
C13_NoLinkToRemoved ==
  /\ [][\A s \in Sessions :
          (s \in activeUsers /\ s \notin activeUsers')
            => /\ waitingUser' # s
               /\ partner'[s] = NULL
               /\ \A r \in Sessions \ {s} : partner'[r] # s]_vars
  /\ [](\A r \in activeUsers :
          partner[r] # NULL => partner[r] \in activeUsers)

\* The most recent step was a cleanup of s: an accepted next by s, the
\* disconnect of s, or the sweep that removed s (a sweep removes only sockets
\* over the staleness threshold, and leaves their transport open).
CleanedLast(s) ==
  \/ last.op = "next" /\ last.res = "done" /\ last.id = s
  \/ last.op = "disconnect" /\ last.id = s
  \/ /\ last.op = "reaper"
     /\ conn[s] = "open" /\ s \notin activeUsers
     /\ lastSeen[s] > STALE_AFTER

\* This step is a cleanup of s: an accepted next by s, the disconnect of s,
\* or a sweep that finds s registered and overdue.
CleanedNow(s) ==
  \/ last'.op = "next" /\ last'.res = "done" /\ last'.id = s
  \/ last'.op = "disconnect" /\ last'.id = s
  \/ last'.op = "reaper" /\ Overdue(s)

\* The second cleanup of s has nobody to tell and changes no link: a next or
\* disconnect emits no partnerLeft and leaves every link alone; a sweep
\* reaches s without a partner (what else the sweep does is the removal of
\* other sockets).
SecondTellsNobody(s) ==
  /\ partner[s] = NULL /\ partner'[s] = NULL
  /\ IF last'.op = "reaper"
       THEN SweptBefore(Shared, 1, s).partner[s] = NULL
       ELSE /\ partner' = partner
            /\ ~\E i \in 1..Len(out') : out'[i].ev = "partnerLeft"

AcceptedFind(r) ==
  /\ last'.op = "findPartner" /\ last'.id = r
  /\ r \notin banned
  /\ SinceLast(r, "findPartner") >= FIND_WINDOW

C16_WaitingCallerNoOp ==
  [][\A s \in Sessions :
       (last'.op = "findPartner" /\ last'.id = s /\ waitingUser = s)
         => /\ waitingUser' = s
            /\ UNCHANGED <<partner, recentPairs, timers>>
            /\ ~\E i \in 1..Len(out') : out'[i].ev = "match"]_vars

\* C16 witness: a socket that is waiting has asked again, 40 s or more after
\* the server started, passed the rate limiter, and is still waiting.
C16_RepeatedRequestSeen ==
  /\ last.op = "findPartner" /\ last.res = "self"
  /\ waitingUser = last.id
  /\ uptime >= 2 * REAPER_PERIOD
  /\ RATE_LIMIT[<<last.id, "findPartner">>] = 0
  /\ out = <<>>

\* C17: every accepted report appends exactly one entry to the end of the
\* ledger and sends reportAck to the reporter; the entry names the reporter,
\* and its reportedId is the reporter's partner when there is one, the
\* reportedId of the payload only when there is none.  No step changes or
\* removes an entry the ledger already holds.
C17_ReportAppends ==
  [][/\ Len(reports') >= Len(reports)
     /\ SubSeq(reports', 1, Len(reports)) = reports
     /\ \A s \in Sessions, target \in ReportTargets, reason \in Reasons :
          (Report(s, target, reason) /\ SinceLast(s, "report") >= REPORT_WINDOW)
            => /\ Len(reports') = Len(reports) + 1
               /\ reports'[Len(reports')].reporterId = s
               /\ reports'[Len(reports')].reportedId =
                    (IF partner[s] # NULL THEN partner[s] ELSE target)
               /\ \E i \in 1..Len(out') : out'[i] = Msg(s, "reportAck")]_vars

\* C17 witness: a paired socket's report has just been stored against its
\* partner and acknowledged, after an earlier entry.
C17_PartnerReportSeen ==
  /\ last.op = "report" /\ last.res = "stored"
  /\ partner[last.id] # NULL
  /\ Len(reports) >= 2
  /\ reports[Len(reports)].reporterId = last.id
  /\ reports[Len(reports)].reportedId = partner[last.id]
  /\ out[1] = Msg(last.id, "reportAck")

\* C18: in every reachable state the waiting socket and every socket that
\* holds a partner link are in the registry; a socket the reaper evicted
\* cannot become the waiting socket or be paired by sending findPartner.
C18_OnlyRegisteredMatch ==
  /\ waitingUser # NULL => waitingUser \in activeUsers
  /\ \A s \in Sessions : partner[s] # NULL => s \in activeUsers

\* C19: an offer, answer, candidate or partnerLeft is delivered only to a
\* socket whose own partner link, at that moment, names the sender (for
\* partnerLeft: the socket that leaves by next or disconnect, or that the
\* sweep is removing).
C19_OnlyFromOwnPartner ==
  [][\A i \in 1..Len(out') :
       /\ (last'.op \in RelayKinds /\ out'[i].ev \in RelayKinds)
            => partner[out'[i].to] = last'.id
       /\ (last'.op \in {"next", "disconnect"} /\ out'[i].ev = "partnerLeft")
            => partner[out'[i].to] = last'.id
       /\ (last'.op = "reaper" /\ out'[i].ev = "partnerLeft")
            => \E s \in Sessions :
                 LET st == SweptBefore(Shared, 1, s) IN
                 /\ Overdue(s)
                 /\ st.partner[s] = out'[i].to
                 /\ st.partner[out'[i].to] = s]_vars

====
